---- MODULE Spec2Model ----
(***************************************************************************)
(* Change-history (undo/redo) manager of the potentecar application:       *)
(* ChangeHistoryManager in src/src/utils/stockBaselineManager.ts, together *)
(* with the storage it talks to (the durable change_history table and the  *)
(* target tables whose rows the journal entries describe).                 *)
(*                                                                         *)
(* Calls are serialized: every action below is one whole call of a public  *)
(* method, from its first statement to the settlement of its promise.      *)
(***************************************************************************)
EXTENDS Integers, Sequences, FiniteSets, TLC

\* ------------------------------------------------------------------------
\* Bounds of the model
\* ------------------------------------------------------------------------

\* number of recordChange calls that reach the durable table in one run
MaxRecords == 3

\* number of recordChange calls in the run that fills the journal to its cap
MaxCapRecords == 102

\* number of journal rows written by DataManagerWithHistory in one run
MaxMutations == 2

\* number of calls of the manager that may be suspended at the same time
MaxCalls == 2

\* number of recordChange calls in a run with overlapping calls
MaxOverlapRecords == 2

\* number of forceLoad calls in a run of the lazy loader
MaxForceLoads == 2

\* number of recordChange calls in the run whose entries may lack a snapshot
MaxAnyRecords == 2

\* ------------------------------------------------------------------------
\* Program constants
\* ------------------------------------------------------------------------

maxHistorySize == 100

\* ------------------------------------------------------------------------
\* Values
\* ------------------------------------------------------------------------

TableNames == {"clients", "stock_items"}

RecordIds == {"c1"}

Names == {"Acme", "Acme Ltd"}

\* operation_type: 'CREATE' | 'UPDATE' | 'DELETE'
OperationTypes == {"CREATE", "UPDATE", "DELETE"}

\* null / undefined snapshot (old_data, new_data default to null)
NULL == [null |-> TRUE]

\* no row stored under an id
NoRow == [absent |-> TRUE]

\* what reading an array outside its indices gives
undefined == [undefined |-> TRUE]

\* a full row snapshot; rows carry a stable id field
Rows == [id : RecordIds, name : Names]

Snapshots == Rows \cup {NULL}

\* outcome of one storage call: success, or a failure (an {error} result, which
\* the caller throws, or an exception thrown by the call: both reach the same
\* catch block)
StorageOutcomes == {"ok", "error"}

\* ------------------------------------------------------------------------
\* State
\* ------------------------------------------------------------------------

VARIABLES
    historyStack,     \* ChangeHistoryManager.historyStack (index 0 = TLA+ index 1)
    currentPosition,  \* ChangeHistoryManager.currentPosition (0-based, -1 = before first)
    tables,           \* target tables: table name -> id -> row or NoRow
    change_history,   \* durable journal table, in insertion order
    now,              \* clock: timestamp given to the next entry
    last,             \* the call that has just settled and how it settled
    base,             \* contents of the target tables before the first journal entry
    tailTables,       \* contents of the target tables after the newest recorded mutation
    hitBottom,        \* an undo has brought the cursor to -1 since the journal last changed
    beforeUndo,       \* tables, cursor and journal before the undo that succeeded as the
                      \* last call, or as the call before a redo that is the last call
    calls,            \* calls of the manager suspended at the await of their storage call
    controls,         \* state of the component showing the undo and redo buttons
    loader            \* static fields of IntelligentLazyLoader and its suspended calls

vars == <<historyStack, currentPosition, tables, change_history, now, last,
          base, tailTables, hitBottom, beforeUndo, calls, controls, loader>>

\* ------------------------------------------------------------------------
\* Storage: the target tables
\* ------------------------------------------------------------------------

\* supabase.from(table).delete().eq('id', rid): deleting a missing row is no error
DbDelete(t, table, rid) == [t EXCEPT ![table][rid] = NoRow]

\* supabase.from(table).insert([{...data, id: rid}]) fails on a duplicate key
DbInsertFails(t, table, rid) == t[table][rid] # NoRow

DbInsert(t, table, rid, data) == [t EXCEPT ![table][rid] = [data EXCEPT !.id = rid]]

\* supabase.from(table).update(data).eq('id', rid): every column of data is
\* written to the row with that id; no such row is no error.  Writing another
\* id over the key fails when that id is taken.
DbUpdateFails(t, table, rid, data) ==
    /\ t[table][rid] # NoRow
    /\ data.id # rid
    /\ t[table][data.id] # NoRow

DbUpdate(t, table, rid, data) ==
    IF t[table][rid] = NoRow
    THEN t
    ELSE [t EXCEPT ![table] = [r \in RecordIds |->
             IF r = data.id THEN data
             ELSE IF r = rid THEN NoRow
             ELSE t[table][r]]]

\* ------------------------------------------------------------------------
\* ChangeHistoryManager
\* ------------------------------------------------------------------------

canUndo(cp) == cp >= 0

canRedo(hs, cp) == cp < Len(hs) - 1

\* getHistoryStats counting the entry at the cursor among the redoable ones
getHistoryStats_redoCountsCursor(hs, cp) ==
    [totalEntries    |-> Len(hs),
     currentPosition |-> cp,
     canUndo         |-> canUndo(cp),
     canRedo         |-> canRedo(hs, cp),
     undoCount       |-> cp + 1,
     redoCount       |-> Len(hs) - cp]

\* getHistoryStats()
getHistoryStats(hs, cp) ==
    [totalEntries    |-> Len(hs),
     currentPosition |-> cp,
     canUndo         |-> canUndo(cp),
     canRedo         |-> canRedo(hs, cp),
     undoCount       |-> cp + 1,
     redoCount       |-> Len(hs) - cp - 1]

\* historyStack.slice(-n)
SliceLast(hs, n) == SubSeq(hs, Len(hs) - n + 1, Len(hs))

\* addToStack leaving the cursor one past the new entry
addToStack_cursorPastEnd(hs, cp, entry) ==
    LET kept   == IF cp < Len(hs) - 1 THEN SubSeq(hs, 1, cp + 1) ELSE hs
        pushed == Append(kept, entry)
    IN  IF Len(pushed) > maxHistorySize
        THEN [historyStack    |-> SliceLast(pushed, maxHistorySize),
              currentPosition |-> maxHistorySize]
        ELSE [historyStack    |-> pushed,
              currentPosition |-> Len(pushed)]

\* addToStack without the removal of the entries after the cursor
addToStack_keepsRedoTail(hs, cp, entry) ==
    LET pushed == Append(hs, entry)
    IN  IF Len(pushed) > maxHistorySize
        THEN [historyStack    |-> SliceLast(pushed, maxHistorySize),
              currentPosition |-> maxHistorySize - 1]
        ELSE [historyStack    |-> pushed,
              currentPosition |-> Len(pushed) - 1]

\* addToStack that does not move the cursor again after cutting the journal to its cap
addToStack_staleCursorAfterCap(hs, cp, entry) ==
    LET kept   == IF cp < Len(hs) - 1 THEN SubSeq(hs, 1, cp + 1) ELSE hs
        pushed == Append(kept, entry)
    IN  IF Len(pushed) > maxHistorySize
        THEN [historyStack    |-> SliceLast(pushed, maxHistorySize),
              currentPosition |-> Len(pushed) - 1]
        ELSE [historyStack    |-> pushed,
              currentPosition |-> Len(pushed) - 1]

\* addToStack: drop the redo tail, push, move the cursor to the tail, cap the size
addToStack(hs, cp, entry) ==
    LET kept   == IF cp < Len(hs) - 1 THEN SubSeq(hs, 1, cp + 1) ELSE hs
        pushed == Append(kept, entry)
    IN  IF Len(pushed) > maxHistorySize
        THEN [historyStack    |-> SliceLast(pushed, maxHistorySize),
              currentPosition |-> maxHistorySize - 1]
        ELSE [historyStack    |-> pushed,
              currentPosition |-> Len(pushed) - 1]

\* revertChange that deletes for every operation_type it does not know
RevertCall_unknownDeletes(entry) ==
    CASE entry.operation_type = "UPDATE" ->
            IF entry.old_data = NULL THEN "none" ELSE "update"
      [] entry.operation_type = "DELETE" ->
            IF entry.old_data = NULL THEN "none" ELSE "insert"
      [] OTHER -> "delete"

\* revertChange: the storage call it issues, or none
\*   "none"   : returns false before any storage call
RevertCall(entry) ==
    CASE entry.operation_type = "CREATE" -> "delete"
      [] entry.operation_type = "UPDATE" ->
            IF entry.old_data = NULL THEN "none" ELSE "update"
      [] entry.operation_type = "DELETE" ->
            IF entry.old_data = NULL THEN "none" ELSE "insert"
      [] OTHER -> "none"

\* the storage call fails by itself (constraint violation)
RevertRejected(t, entry) ==
    CASE RevertCall(entry) = "insert" -> DbInsertFails(t, entry.table_name, entry.record_id)
      [] RevertCall(entry) = "update" ->
            DbUpdateFails(t, entry.table_name, entry.record_id, entry.old_data)
      [] OTHER -> FALSE

\* revertChange whose UPDATE case writes new_data
RevertEffect_updateWritesNew(t, entry) ==
    CASE RevertCall(entry) = "delete" -> DbDelete(t, entry.table_name, entry.record_id)
      [] RevertCall(entry) = "update" ->
            DbUpdate(t, entry.table_name, entry.record_id, entry.new_data)
      [] RevertCall(entry) = "insert" ->
            DbInsert(t, entry.table_name, entry.record_id, entry.old_data)
      [] OTHER -> t

\* revertChange whose CREATE case leaves the row in place
RevertEffect_createKeepsRow(t, entry) ==
    CASE RevertCall(entry) = "delete" -> t
      [] RevertCall(entry) = "update" ->
            DbUpdate(t, entry.table_name, entry.record_id, entry.old_data)
      [] RevertCall(entry) = "insert" ->
            DbInsert(t, entry.table_name, entry.record_id, entry.old_data)
      [] OTHER -> t

\* the tables after the storage call of revertChange has succeeded
RevertEffect(t, entry) ==
    CASE RevertCall(entry) = "delete" -> DbDelete(t, entry.table_name, entry.record_id)
      [] RevertCall(entry) = "update" ->
            DbUpdate(t, entry.table_name, entry.record_id, entry.old_data)
      [] RevertCall(entry) = "insert" ->
            DbInsert(t, entry.table_name, entry.record_id, entry.old_data)
      [] OTHER -> t

\* applyChange that wants new_data for a DELETE too
ApplyCall_deleteNeedsNewData(entry) ==
    CASE entry.operation_type = "CREATE" ->
            IF entry.new_data = NULL THEN "none" ELSE "insert"
      [] entry.operation_type = "UPDATE" ->
            IF entry.new_data = NULL THEN "none" ELSE "update"
      [] entry.operation_type = "DELETE" ->
            IF entry.new_data = NULL THEN "none" ELSE "delete"
      [] OTHER -> "none"

\* applyChange: the storage call it issues, or none
ApplyCall(entry) ==
    CASE entry.operation_type = "CREATE" ->
            IF entry.new_data = NULL THEN "none" ELSE "insert"
      [] entry.operation_type = "UPDATE" ->
            IF entry.new_data = NULL THEN "none" ELSE "update"
      [] entry.operation_type = "DELETE" -> "delete"
      [] OTHER -> "none"

ApplyRejected(t, entry) ==
    CASE ApplyCall(entry) = "insert" -> DbInsertFails(t, entry.table_name, entry.record_id)
      [] ApplyCall(entry) = "update" ->
            DbUpdateFails(t, entry.table_name, entry.record_id, entry.new_data)
      [] OTHER -> FALSE

\* applyChange whose UPDATE case writes old_data
ApplyEffect_updateWritesOld(t, entry) ==
    CASE ApplyCall(entry) = "insert" ->
            DbInsert(t, entry.table_name, entry.record_id, entry.new_data)
      [] ApplyCall(entry) = "update" ->
            DbUpdate(t, entry.table_name, entry.record_id, entry.old_data)
      [] ApplyCall(entry) = "delete" -> DbDelete(t, entry.table_name, entry.record_id)
      [] OTHER -> t

\* applyChange whose DELETE case leaves the row in place
ApplyEffect_deleteKeepsRow(t, entry) ==
    CASE ApplyCall(entry) = "insert" ->
            DbInsert(t, entry.table_name, entry.record_id, entry.new_data)
      [] ApplyCall(entry) = "update" ->
            DbUpdate(t, entry.table_name, entry.record_id, entry.new_data)
      [] ApplyCall(entry) = "delete" -> t
      [] OTHER -> t

\* the tables after the storage call of applyChange has succeeded
ApplyEffect(t, entry) ==
    CASE ApplyCall(entry) = "insert" ->
            DbInsert(t, entry.table_name, entry.record_id, entry.new_data)
      [] ApplyCall(entry) = "update" ->
            DbUpdate(t, entry.table_name, entry.record_id, entry.new_data)
      [] ApplyCall(entry) = "delete" -> DbDelete(t, entry.table_name, entry.record_id)
      [] OTHER -> t

\* revertChange that does not look at the error of its storage call
revertChange_ignoresError(t, entry, outcome) ==
    LET call   == RevertCall(entry)
        failed == outcome # "ok" \/ RevertRejected(t, entry)
    IN  [success |-> call # "none",
         storage |-> IF call = "none" THEN "none" ELSE IF failed THEN "error" ELSE "ok",
         tables  |-> IF call # "none" /\ ~failed THEN RevertEffect(t, entry) ELSE t]

\* revertChange(entry): what it returns, how its storage call went, the tables after it
\*   storage : "ok" / "error", or "none" when no storage call was issued
revertChange(t, entry, outcome) ==
    IF entry = undefined
    THEN [success |-> FALSE, storage |-> "none", tables |-> t]
    ELSE
    LET call   == RevertCall(entry)
        failed == outcome # "ok" \/ RevertRejected(t, entry)
    IN  [success |-> call # "none" /\ ~failed,
         storage |-> IF call = "none" THEN "none" ELSE IF failed THEN "error" ELSE "ok",
         tables  |-> IF call # "none" /\ ~failed THEN RevertEffect(t, entry) ELSE t]

\* applyChange(entry): what it returns, how its storage call went, the tables after it
applyChange(t, entry, outcome) ==
    IF entry = undefined
    THEN [success |-> FALSE, storage |-> "none", tables |-> t]
    ELSE
    LET call   == ApplyCall(entry)
        failed == outcome # "ok" \/ ApplyRejected(t, entry)
    IN  [success |-> call # "none" /\ ~failed,
         storage |-> IF call = "none" THEN "none" ELSE IF failed THEN "error" ELSE "ok",
         tables  |-> IF call # "none" /\ ~failed THEN ApplyEffect(t, entry) ELSE t]

\* recordChange that goes on to addToStack whatever the insert returned
InsertThrows_never(outcome) == FALSE

\* recordChange: the insert into change_history came back with an error, which
\* is thrown on to the caller
InsertThrows(outcome) == outcome # "ok"

\* the call that settled: method, result, outcome of its storage call
\*   result  : "true" / "false" (undo, redo), "resolved" / "rejected" (promises of void)
\*             "rows" / "empty" (loadHistory: the list it resolves to has rows or none)
\*   storage : "ok" / "error", or "none" when no storage call was issued
Settled(op, result, storage) == [op |-> op, result |-> result, storage |-> storage]

NoSnapshot == [none |-> TRUE]

\* React state of FloatingHistoryControls / ChangeHistoryTab: the two busy
\* flags and the canUndo / canRedo last read from getHistoryStats()
Controls(isUndoing, isRedoing, shownCanUndo, shownCanRedo) ==
    [isUndoing |-> isUndoing, isRedoing |-> isRedoing,
     canUndo |-> shownCanUndo, canRedo |-> shownCanRedo]

\* ------------------------------------------------------------------------
\* IntelligentLazyLoader: items, loadQueue, isProcessing

\* ids passed to register() by initializeDashboardLazyLoading
LoaderIds == {"auth_session", "system_settings", "dashboard_data"}

\* an id items.get() finds nothing for
NotRegistered == [unregistered |-> TRUE]

\* LazyLoadConfig: priority, delay, dependencies, condition
\*   condition : "none" when the config has none, else what it evaluates to,
\*               "true" or "false"
LazyLoadConfig(priority, delay, dependencies, condition) ==
    [priority |-> priority, delay |-> delay, dependencies |-> dependencies,
     condition |-> condition]

\* LazyLoadPresets.critical, .dashboard, .conditional(condition), and the
\* config of 'stock_data': the dashboard preset with dependencies ['system_settings']
LazyLoadPresets ==
    [critical    |-> LazyLoadConfig("critical", 0, {}, "none"),
     dashboard   |-> LazyLoadConfig("high", 500, {"auth", "settings"}, "none"),
     stock       |-> LazyLoadConfig("high", 500, {"system_settings"}, "none"),
     conditional |-> [condition \in BOOLEAN |->
                        LazyLoadConfig("medium", 1000, {},
                                       IF condition THEN "true" ELSE "false")]]

Configs ==
    {LazyLoadPresets.critical, LazyLoadPresets.dashboard, LazyLoadPresets.stock,
     LazyLoadPresets.conditional[TRUE], LazyLoadPresets.conditional[FALSE]}

\* priorities.indexOf(priority)
PriorityIndex(priority) ==
    CASE priority = "critical" -> 0
      [] priority = "high"     -> 1
      [] priority = "medium"   -> 2
      [] priority = "low"      -> 3

\* LazyLoadItem
LazyLoadItem(config, status) == [config |-> config, status |-> status]

\* where processQueue stands: not running ("idle"), running its loop ("loop"),
\* suspended at the setTimeout of an item ("delay") or at loadItem ("load")
At(place, id) == [place |-> place, id |-> id]

\* the loader before any register():
\*   invoked   : how often the loader function of each id has been called
\*   forced    : loadItem calls of forceLoad awaiting their loader, per id
\*   listeners : callbacks forceLoad left with addListener, per id
\*   forceLoads: forceLoad calls made so far
LoaderAtStart ==
    [items        |-> [id \in LoaderIds |-> NotRegistered],
     loadQueue    |-> << >>,
     isProcessing |-> FALSE,
     at           |-> At("idle", "none"),
     invoked      |-> [id \in LoaderIds |-> 0],
     forced       |-> [id \in LoaderIds |-> 0],
     listeners    |-> [id \in LoaderIds |-> 0],
     forceLoads   |-> 0]

\* the target tables at start: no rows at all, or every row present
InitialTables ==
    { [t \in TableNames |-> [r \in RecordIds |-> NoRow]],
      [t \in TableNames |-> [r \in RecordIds |-> [id |-> r, name |-> "Acme"]]] }

Init ==
    /\ historyStack = << >>
    /\ currentPosition = -1
    /\ tables \in InitialTables
    /\ change_history = << >>
    /\ now = 0
    /\ last = Settled("none", "none", "none")
    /\ base = tables
    /\ tailTables = tables
    /\ hitBottom = FALSE
    /\ beforeUndo = NoSnapshot
    /\ calls = << >>
    /\ controls = Controls(FALSE, FALSE, FALSE, FALSE)
    /\ loader = LoaderAtStart

\* recordChange(operation, tableName, recordId, oldData, newData, description)
\* limit bounds the number of durable inserts of the run
recordChange(limit, operation, tableName, recordId, oldData, newData, outcome) ==
    /\ now < limit
    /\ LET changeEntry == [id             |-> now + 1,
                           operation_type |-> operation,
                           table_name     |-> tableName,
                           record_id      |-> recordId,
                           old_data       |-> oldData,
                           new_data       |-> newData,
                           timestamp      |-> now]
           added == addToStack(historyStack, currentPosition, changeEntry)
       IN  /\ IF outcome = "ok"
              THEN /\ change_history' = Append(change_history, changeEntry)
                   /\ now' = now + 1
              ELSE UNCHANGED <<change_history, now>>
           /\ IF InsertThrows(outcome)
              THEN /\ last' = Settled("recordChange", "rejected", outcome)
                   /\ UNCHANGED <<historyStack, currentPosition, hitBottom>>
              ELSE /\ historyStack' = added.historyStack
                   /\ currentPosition' = added.currentPosition
                   /\ last' = Settled("recordChange", "resolved", outcome)
                   /\ hitBottom' = FALSE
    /\ beforeUndo' = NoSnapshot

\* historyStack[index]
EntryAt(hs, index) == hs[index + 1]

\* undo that decrements the cursor before it looks at canUndo
undo_decrementsBeforeGuard(outcome) ==
    IF ~canUndo(currentPosition)
    THEN /\ last' = Settled("undo", "false", "none")
         /\ beforeUndo' = NoSnapshot
         /\ currentPosition' = currentPosition - 1
         /\ UNCHANGED <<historyStack, tables, change_history, now,
                        base, tailTables, hitBottom>>
    ELSE LET currentEntry == EntryAt(historyStack, currentPosition)
             reverted     == revertChange(tables, currentEntry, outcome)
         IN  /\ tables' = reverted.tables
             /\ currentPosition' = IF reverted.success THEN currentPosition - 1
                                                       ELSE currentPosition
             /\ last' = Settled("undo", IF reverted.success THEN "true" ELSE "false",
                                reverted.storage)
             /\ hitBottom' = (hitBottom \/ (reverted.success /\ currentPosition = 0))
             /\ beforeUndo' = IF reverted.success
                              THEN [tables          |-> tables,
                                    currentPosition |-> currentPosition,
                                    historyStack    |-> historyStack]
                              ELSE NoSnapshot
             /\ UNCHANGED <<historyStack, change_history, now, base, tailTables>>

\* undo that takes the entry it reverted out of the journal
undo_popsEntry(outcome) ==
    IF ~canUndo(currentPosition)
    THEN /\ last' = Settled("undo", "false", "none")
         /\ beforeUndo' = NoSnapshot
         /\ UNCHANGED <<historyStack, currentPosition, tables, change_history, now,
                        base, tailTables, hitBottom>>
    ELSE LET currentEntry == EntryAt(historyStack, currentPosition)
             reverted     == revertChange(tables, currentEntry, outcome)
         IN  /\ tables' = reverted.tables
             /\ currentPosition' = IF reverted.success THEN currentPosition - 1
                                                       ELSE currentPosition
             /\ historyStack' = IF reverted.success
                                THEN SubSeq(historyStack, 1, currentPosition)
                                ELSE historyStack
             /\ last' = Settled("undo", IF reverted.success THEN "true" ELSE "false",
                                reverted.storage)
             /\ hitBottom' = (hitBottom \/ (reverted.success /\ currentPosition = 0))
             /\ beforeUndo' = IF reverted.success
                              THEN [tables          |-> tables,
                                    currentPosition |-> currentPosition,
                                    historyStack    |-> historyStack]
                              ELSE NoSnapshot
             /\ UNCHANGED <<change_history, now, base, tailTables>>

\* undo()
undo(outcome) ==
    IF ~canUndo(currentPosition)
    THEN /\ last' = Settled("undo", "false", "none")
         /\ beforeUndo' = NoSnapshot
         /\ UNCHANGED <<historyStack, currentPosition, tables, change_history, now,
                        base, tailTables, hitBottom>>
    ELSE LET currentEntry == EntryAt(historyStack, currentPosition)
             reverted     == revertChange(tables, currentEntry, outcome)
         IN  /\ tables' = reverted.tables
             /\ currentPosition' = IF reverted.success THEN currentPosition - 1
                                                       ELSE currentPosition
             /\ last' = Settled("undo", IF reverted.success THEN "true" ELSE "false",
                                reverted.storage)
             /\ hitBottom' = (hitBottom \/ (reverted.success /\ currentPosition = 0))
             /\ beforeUndo' = IF reverted.success
                              THEN [tables          |-> tables,
                                    currentPosition |-> currentPosition,
                                    historyStack    |-> historyStack]
                              ELSE NoSnapshot
             /\ UNCHANGED <<historyStack, change_history, now, base, tailTables>>

\* redo that leaves the cursor on the entry it could not apply
redo_noRollback(outcome) ==
    /\ beforeUndo' = IF last.op = "undo" /\ last.result = "true" THEN beforeUndo
                                                                  ELSE NoSnapshot
    /\ IF ~canRedo(historyStack, currentPosition)
       THEN /\ last' = Settled("redo", "false", "none")
            /\ UNCHANGED <<historyStack, currentPosition, tables, change_history, now,
                           base, tailTables, hitBottom>>
       ELSE LET tentative == currentPosition + 1
                nextEntry == EntryAt(historyStack, tentative)
                applied   == applyChange(tables, nextEntry, outcome)
            IN  /\ tables' = applied.tables
                /\ currentPosition' = tentative
                /\ last' = Settled("redo", IF applied.success THEN "true" ELSE "false",
                                   applied.storage)
                /\ UNCHANGED <<historyStack, change_history, now, base, tailTables,
                               hitBottom>>

\* redo that increments the cursor before it looks at canRedo
redo_incrementsBeforeGuard(outcome) ==
    /\ beforeUndo' = IF last.op = "undo" /\ last.result = "true" THEN beforeUndo
                                                                  ELSE NoSnapshot
    /\ IF ~canRedo(historyStack, currentPosition)
       THEN /\ last' = Settled("redo", "false", "none")
            /\ currentPosition' = currentPosition + 1
            /\ UNCHANGED <<historyStack, tables, change_history, now,
                           base, tailTables, hitBottom>>
       ELSE LET tentative == currentPosition + 1
                nextEntry == EntryAt(historyStack, tentative)
                applied   == applyChange(tables, nextEntry, outcome)
            IN  /\ tables' = applied.tables
                /\ currentPosition' = IF applied.success THEN tentative ELSE tentative - 1
                /\ last' = Settled("redo", IF applied.success THEN "true" ELSE "false",
                                   applied.storage)
                /\ UNCHANGED <<historyStack, change_history, now, base, tailTables,
                               hitBottom>>

\* redo(): the cursor is moved first and moved back when applyChange fails
redo(outcome) ==
    /\ beforeUndo' = IF last.op = "undo" /\ last.result = "true" THEN beforeUndo
                                                                  ELSE NoSnapshot
    /\ IF ~canRedo(historyStack, currentPosition)
       THEN /\ last' = Settled("redo", "false", "none")
            /\ UNCHANGED <<historyStack, currentPosition, tables, change_history, now,
                           base, tailTables, hitBottom>>
       ELSE LET tentative == currentPosition + 1
                nextEntry == EntryAt(historyStack, tentative)
                applied   == applyChange(tables, nextEntry, outcome)
            IN  /\ tables' = applied.tables
                /\ currentPosition' = IF applied.success THEN tentative ELSE tentative - 1
                /\ last' = Settled("redo", IF applied.success THEN "true" ELSE "false",
                                   applied.storage)
                /\ UNCHANGED <<historyStack, change_history, now, base, tailTables,
                               hitBottom>>

\* select('*').order('timestamp', {ascending: false}): newest first; the row
\* at place i is the one with i - 1 newer rows (of two rows with one
\* timestamp the one inserted later counts as newer)
Newer(q, r) ==
    \/ q.timestamp > r.timestamp
    \/ q.timestamp = r.timestamp /\ q.id > r.id

OrderByTimestampDesc(rows) ==
    [i \in 1..Cardinality(rows) |->
        CHOOSE r \in rows : Cardinality({q \in rows : Newer(q, r)}) = i - 1]

\* .limit(n)
Limit(s, n) == IF Len(s) <= n THEN s ELSE SubSeq(s, 1, n)

\* Array.prototype.reverse left out: the rows stay newest first
Reverse_leftOut(s) == s

\* Array.prototype.reverse
Reverse(s) == [i \in 1..Len(s) |-> s[Len(s) + 1 - i]]

RowsOf(s) == {s[i] : i \in 1..Len(s)}

\* loadHistory(limit): returns the rows it has put in the journal, or [] from
\* its catch block
loadHistory(limit, outcome) ==
    LET data == Limit(OrderByTimestampDesc(RowsOf(change_history)), limit)
    IN  /\ IF outcome = "ok"
           THEN /\ historyStack' = Reverse(data)
                /\ currentPosition' = Len(data) - 1
                /\ hitBottom' = FALSE
           ELSE UNCHANGED <<historyStack, currentPosition, hitBottom>>
        /\ last' = Settled("loadHistory",
                           IF outcome = "ok" /\ data # << >> THEN "rows" ELSE "empty",
                           outcome)
        /\ beforeUndo' = NoSnapshot
        /\ UNCHANGED <<tables, change_history, now, base, tailTables>>

\* the delete taking the rows at the cutoff too (lte for lt)
RECURSIVE KeepFrom_deletesAtCutoff(_, _)
KeepFrom_deletesAtCutoff(s, cutoff) ==
    IF s = << >> THEN << >>
    ELSE IF Head(s).timestamp <= cutoff
         THEN KeepFrom_deletesAtCutoff(Tail(s), cutoff)
         ELSE <<Head(s)>> \o KeepFrom_deletesAtCutoff(Tail(s), cutoff)

\* rows that .lt('timestamp', cutoff) leaves in place, in their order
RECURSIVE KeepFrom(_, _)
KeepFrom(s, cutoff) ==
    IF s = << >> THEN << >>
    ELSE IF Head(s).timestamp < cutoff
         THEN KeepFrom(Tail(s), cutoff)
         ELSE <<Head(s)>> \o KeepFrom(Tail(s), cutoff)

\* clearOldHistory that throws the error of its delete on to the caller
clearOldHistory_rethrows(daysToKeep, outcome) ==
    /\ LET cutoffDate == now - daysToKeep
       IN  change_history' = IF outcome = "ok"
                             THEN KeepFrom(change_history, cutoffDate)
                             ELSE change_history
    /\ last' = Settled("clearOldHistory",
                       IF outcome = "ok" THEN "resolved" ELSE "rejected", outcome)
    /\ beforeUndo' = NoSnapshot
    /\ UNCHANGED <<historyStack, currentPosition, tables, now, base, tailTables, hitBottom>>

\* clearOldHistory(daysToKeep); the clock counts days
clearOldHistory(daysToKeep, outcome) ==
    /\ LET cutoffDate == now - daysToKeep
       IN  change_history' = IF outcome = "ok"
                             THEN KeepFrom(change_history, cutoffDate)
                             ELSE change_history
    /\ last' = Settled("clearOldHistory", "resolved", outcome)
    /\ beforeUndo' = NoSnapshot
    /\ UNCHANGED <<historyStack, currentPosition, tables, now, base, tailTables, hitBottom>>

\* ------------------------------------------------------------------------
\* DataManagerWithHistory: a mutation of a target table recorded in the journal
\* ------------------------------------------------------------------------

\* ids the client gives to rows the backend has not stored yet ("temp_...")
TempIds == {"temp_1"}

\* dataManager.saveToDatabase(tableName, data): a row with a temporary id is
\* inserted under an id of the backend's choice, any other row is written over
\* the stored row with its id; returns the stored row
DmSave(t, tableName, data, newId) ==
    IF data.id \in TempIds
    THEN [t EXCEPT ![tableName][newId] = [data EXCEPT !.id = newId]]
    ELSE [t EXCEPT ![tableName][data.id] = data]

\* saveToDatabase(tableName, data) where the select of the existing row, the
\* save and the journal insert all succeed
saveToDatabase(limit, tableName, data, newId) ==
    LET isUpdate == data.id \notin TempIds
        oldData  == IF isUpdate THEN tables[tableName][data.id] ELSE NULL
        result   == IF isUpdate THEN data ELSE [data EXCEPT !.id = newId]
    IN  /\ IF isUpdate THEN tables[tableName][data.id] # NoRow
                       ELSE tables[tableName][newId] = NoRow
        /\ tables' = DmSave(tables, tableName, data, newId)
        /\ recordChange(limit, IF isUpdate THEN "UPDATE" ELSE "CREATE",
                        tableName, result.id, oldData, result, "ok")
        /\ tailTables' = tables'
        /\ UNCHANGED base

\* deleteFromDatabase(tableName, id) of an existing row where the select, the
\* delete and the journal insert succeed
deleteFromDatabase(limit, tableName, id) ==
    LET existingData == tables[tableName][id]
    IN  /\ existingData # NoRow
        /\ tables' = DbDelete(tables, tableName, id)
        /\ recordChange(limit, "DELETE", tableName, id, existingData, NULL, "ok")
        /\ tailTables' = tables'
        /\ UNCHANGED base

\* ------------------------------------------------------------------------
\* Specifications
\* ------------------------------------------------------------------------

\* the journal days a retention sweep keeps
DaysToKeep == {0, 1, 30}

\* page sizes of a reload
LoadLimits == {1, 50}

\* arguments of a direct recordChange call: the row before and the row after
DirectArgs ==
    { [tableName |-> "clients", recordId |-> "c1",
       oldData |-> [id |-> "c1", name |-> "Acme"],
       newData |-> [id |-> "c1", name |-> "Acme Ltd"]] }

\* Spec: the public methods of the manager, called one after the other with
\* any arguments, every storage call free to succeed or fail
RecordChange ==
    \E operation \in OperationTypes, args \in DirectArgs, outcome \in StorageOutcomes :
        /\ recordChange(MaxRecords, operation, args.tableName, args.recordId,
                        args.oldData, args.newData, outcome)
        /\ UNCHANGED <<tables, base, tailTables, calls, controls, loader>>

Undo == \E outcome \in StorageOutcomes : undo(outcome) /\ UNCHANGED <<calls, controls, loader>>

Redo == \E outcome \in StorageOutcomes : redo(outcome) /\ UNCHANGED <<calls, controls, loader>>

LoadHistory ==
    \E limit \in LoadLimits, outcome \in StorageOutcomes :
        loadHistory(limit, outcome) /\ UNCHANGED <<calls, controls, loader>>

ClearOldHistory ==
    \E daysToKeep \in DaysToKeep, outcome \in StorageOutcomes :
        clearOldHistory(daysToKeep, outcome) /\ UNCHANGED <<calls, controls, loader>>

Next == RecordChange \/ Undo \/ Redo \/ LoadHistory \/ ClearOldHistory

Spec == Init /\ [][Next]_vars

\* SpecRecorded: every journal entry is recorded together with the mutation it
\* describes, nothing else writes the target tables, undo and redo free to fail
SaveToDatabase ==
    \E tableName \in TableNames, data \in [id : RecordIds \cup TempIds, name : Names],
       newId \in RecordIds :
        saveToDatabase(MaxRecords, tableName, data, newId) /\ UNCHANGED <<calls, controls, loader>>

DeleteFromDatabase ==
    \E tableName \in TableNames, id \in RecordIds :
        deleteFromDatabase(MaxRecords, tableName, id) /\ UNCHANGED <<calls, controls, loader>>

NextRecorded == SaveToDatabase \/ DeleteFromDatabase \/ Undo \/ Redo

SpecRecorded == Init /\ [][NextRecorded]_vars

\* SpecCap: one caller recording the same change again and again, up to and
\* beyond the cap of the in-memory journal
RecordAtCap ==
    \E outcome \in StorageOutcomes :
        /\ recordChange(MaxCapRecords, "UPDATE", "clients", "c1",
                        [id |-> "c1", name |-> "Acme"], [id |-> "c1", name |-> "Acme Ltd"],
                        outcome)
        /\ UNCHANGED <<tables, base, tailTables, calls, controls, loader>>

NextCap == RecordAtCap

SpecCap == Init /\ [][NextCap]_vars

\* SpecCapLoad: the caller of SpecCap, who also reloads the journal once the
\* durable table holds more rows than the cap of the in-memory journal, with
\* a page below or above that cap
CapLoadLimits == {50, 150}

LoadPastCap ==
    \E limit \in CapLoadLimits, outcome \in StorageOutcomes :
        /\ Len(change_history) > maxHistorySize
        /\ loadHistory(limit, outcome)
        /\ UNCHANGED <<calls, controls, loader>>

NextCapLoad == RecordAtCap \/ LoadPastCap

SpecCapLoad == Init /\ [][NextCapLoad]_vars

\* SpecWrapped: the manager as the user interface drives it: changes are
\* recorded, and undo and redo go through the useChangeHistory hook, which
\* reloads the journal after each one that succeeded

\* the hook's loadHistory(): getHistoryForDisplay(50), that is loadHistory(50),
\* on the journal and cursor the manager has at that moment
getHistoryForDisplay(hs, cp, outcome) ==
    LET data == Limit(OrderByTimestampDesc(RowsOf(change_history)), 50)
    IN  IF outcome = "ok"
        THEN [historyStack |-> Reverse(data), currentPosition |-> Len(data) - 1]
        ELSE [historyStack |-> hs, currentPosition |-> cp]

\* useChangeHistory().undo(): changeHistoryManager.undo(), then, when it
\* returned true, the hook's loadHistory(); returns what undo returned
useChangeHistoryUndo(outcome, loadOutcome) ==
    IF ~canUndo(currentPosition)
    THEN /\ last' = Settled("useChangeHistory.undo", "false", "none")
         /\ beforeUndo' = NoSnapshot
         /\ UNCHANGED <<historyStack, currentPosition, tables, change_history, now,
                        base, tailTables, hitBottom>>
    ELSE LET currentEntry == EntryAt(historyStack, currentPosition)
             reverted     == revertChange(tables, currentEntry, outcome)
             undone       == IF reverted.success THEN currentPosition - 1
                                                 ELSE currentPosition
             reloaded     == IF reverted.success
                             THEN getHistoryForDisplay(historyStack, undone, loadOutcome)
                             ELSE [historyStack |-> historyStack, currentPosition |-> undone]
         IN  /\ tables' = reverted.tables
             /\ historyStack' = reloaded.historyStack
             /\ currentPosition' = reloaded.currentPosition
             /\ last' = Settled("useChangeHistory.undo",
                                IF reverted.success THEN "true" ELSE "false",
                                reverted.storage)
             /\ hitBottom' = FALSE
             /\ beforeUndo' = NoSnapshot
             /\ UNCHANGED <<change_history, now, base, tailTables>>

\* useChangeHistory().redo(): changeHistoryManager.redo(), then, when it
\* returned true, the hook's loadHistory(); returns what redo returned
useChangeHistoryRedo(outcome, loadOutcome) ==
    IF ~canRedo(historyStack, currentPosition)
    THEN /\ last' = Settled("useChangeHistory.redo", "false", "none")
         /\ beforeUndo' = NoSnapshot
         /\ UNCHANGED <<historyStack, currentPosition, tables, change_history, now,
                        base, tailTables, hitBottom>>
    ELSE LET tentative == currentPosition + 1
             nextEntry == EntryAt(historyStack, tentative)
             applied   == applyChange(tables, nextEntry, outcome)
             redone    == IF applied.success THEN tentative ELSE tentative - 1
             reloaded  == IF applied.success
                          THEN getHistoryForDisplay(historyStack, redone, loadOutcome)
                          ELSE [historyStack |-> historyStack, currentPosition |-> redone]
         IN  /\ tables' = applied.tables
             /\ historyStack' = reloaded.historyStack
             /\ currentPosition' = reloaded.currentPosition
             /\ last' = Settled("useChangeHistory.redo",
                                IF applied.success THEN "true" ELSE "false",
                                applied.storage)
             /\ hitBottom' = FALSE
             /\ beforeUndo' = NoSnapshot
             /\ UNCHANGED <<change_history, now, base, tailTables>>

WrappedUndo ==
    \E outcome \in StorageOutcomes, loadOutcome \in StorageOutcomes :
        useChangeHistoryUndo(outcome, loadOutcome) /\ UNCHANGED <<calls, controls, loader>>

WrappedRedo ==
    \E outcome \in StorageOutcomes, loadOutcome \in StorageOutcomes :
        useChangeHistoryRedo(outcome, loadOutcome) /\ UNCHANGED <<calls, controls, loader>>

NextWrapped == RecordChange \/ WrappedUndo \/ WrappedRedo

SpecWrapped == Init /\ [][NextWrapped]_vars

\* SpecDataManager: DataManagerWithHistory with each of its storage calls (the
\* select of the existing row, the write to the target table, the insert
\* into change_history) free to fail

\* how a call of DataManagerWithHistory settled
\*   result     : "row" / "null" / "rejected" (saveToDatabase), "true" / "false"
\*                (deleteFromDatabase)
\*   storage    : outcome of the write to the target table
\*   wrote      : the write to the target table was carried out
\*   journalled : number of rows the call added to change_history
SettledMutation(op, result, storage, wrote, journalled) ==
    [op |-> op, result |-> result, storage |-> storage, wrote |-> wrote,
     journalled |-> journalled]

\* .select('*').eq('id', id).single(): the row, or nothing when the query
\* fails or finds no row
SelectSingle(t, tableName, id, selectOutcome) ==
    IF selectOutcome = "ok" /\ id \in RecordIds /\ t[tableName][id] # NoRow
    THEN t[tableName][id]
    ELSE NULL

\* the journal, the cursor and the durable table after recordChange(...)
\* called by DataManagerWithHistory
Recorded(operation, tableName, recordId, oldData, newData, insertOutcome) ==
    LET changeEntry == [id             |-> now + 1,
                        operation_type |-> operation,
                        table_name     |-> tableName,
                        record_id      |-> recordId,
                        old_data       |-> oldData,
                        new_data       |-> newData,
                        timestamp      |-> now]
        added == addToStack(historyStack, currentPosition, changeEntry)
    IN  IF InsertThrows(insertOutcome)
        THEN [historyStack |-> historyStack, currentPosition |-> currentPosition,
              change_history |-> change_history, now |-> now, thrown |-> TRUE]
        ELSE [historyStack |-> added.historyStack,
              currentPosition |-> added.currentPosition,
              change_history |-> Append(change_history, changeEntry),
              now |-> now + 1, thrown |-> FALSE]

\* deleteFromDatabase(tableName, id, description)
deleteFromDatabaseWithHistory(limit, tableName, id, selectOutcome, deleteOutcome, insertOutcome) ==
    /\ now < limit
    /\ LET oldData  == SelectSingle(tables, tableName, id, selectOutcome)
           deleted  == deleteOutcome = "ok"
           recorded == IF deleted
                       THEN Recorded("DELETE", tableName, id, oldData, NULL, insertOutcome)
                       ELSE Recorded("DELETE", tableName, id, oldData, NULL, "error")
       IN  /\ tables' = IF deleted THEN DbDelete(tables, tableName, id) ELSE tables
           /\ historyStack' = recorded.historyStack
           /\ currentPosition' = recorded.currentPosition
           /\ change_history' = recorded.change_history
           /\ now' = recorded.now
           /\ last' = SettledMutation("deleteFromDatabase",
                          IF deleted /\ ~recorded.thrown THEN "true" ELSE "false",
                          deleteOutcome, deleted,
                          Len(recorded.change_history) - Len(change_history))
           /\ tailTables' = tables'
           /\ hitBottom' = FALSE
           /\ beforeUndo' = NoSnapshot
           /\ UNCHANGED base

\* saveToDatabase(tableName, data, description); a failed save of
\* dataManager returns null
saveToDatabaseWithHistory(limit, tableName, data, newId, selectOutcome, saveOutcome, insertOutcome) ==
    /\ now < limit
    /\ LET isUpdate == data.id \notin TempIds
           oldData  == IF isUpdate THEN SelectSingle(tables, tableName, data.id, selectOutcome)
                                   ELSE NULL
           saved    == saveOutcome = "ok"
           result   == IF isUpdate THEN data ELSE [data EXCEPT !.id = newId]
           recorded == IF saved
                       THEN Recorded(IF isUpdate THEN "UPDATE" ELSE "CREATE", tableName,
                                     result.id, oldData, result, insertOutcome)
                       ELSE Recorded("CREATE", tableName, result.id, oldData, result, "error")
       IN  /\ tables' = IF saved THEN DmSave(tables, tableName, data, newId) ELSE tables
           /\ historyStack' = recorded.historyStack
           /\ currentPosition' = recorded.currentPosition
           /\ change_history' = recorded.change_history
           /\ now' = recorded.now
           /\ last' = SettledMutation("saveToDatabase",
                          IF ~saved THEN "null"
                          ELSE IF recorded.thrown THEN "rejected" ELSE "row",
                          saveOutcome, saved,
                          Len(recorded.change_history) - Len(change_history))
           /\ tailTables' = tables'
           /\ hitBottom' = FALSE
           /\ beforeUndo' = NoSnapshot
           /\ UNCHANGED base

SaveWithHistory ==
    \E tableName \in TableNames, data \in [id : RecordIds \cup TempIds, name : Names],
       newId \in RecordIds, selectOutcome \in StorageOutcomes,
       saveOutcome \in StorageOutcomes, insertOutcome \in StorageOutcomes :
        /\ saveToDatabaseWithHistory(MaxMutations, tableName, data, newId, selectOutcome,
                                     saveOutcome, insertOutcome)
        /\ UNCHANGED <<calls, controls, loader>>

DeleteWithHistory ==
    \E tableName \in TableNames, id \in RecordIds, selectOutcome \in StorageOutcomes,
       deleteOutcome \in StorageOutcomes, insertOutcome \in StorageOutcomes :
        /\ deleteFromDatabaseWithHistory(MaxMutations, tableName, id, selectOutcome,
                                         deleteOutcome, insertOutcome)
        /\ UNCHANGED <<calls, controls, loader>>

NextDataManager == SaveWithHistory \/ DeleteWithHistory

SpecDataManager == Init /\ [][NextDataManager]_vars

\* ------------------------------------------------------------------------
\* Overlapping calls: every method of the manager runs up to the await of its
\* storage call, is suspended there, and runs from the answer of the storage
\* call to its return when it is resumed; between the two any other call may
\* run.  The storage call takes effect when its answer arrives.
\* ------------------------------------------------------------------------

\* a suspended call: the method and the entry it has read or built
\* this.historyStack[index], also for an index outside the journal
ElementAt(hs, index) ==
    IF index >= 0 /\ index < Len(hs) THEN hs[index + 1] ELSE undefined

Suspended(op, entry) == [op |-> op, entry |-> entry]

RemoveAt(s, i) == SubSeq(s, 1, i - 1) \o SubSeq(s, i + 1, Len(s))

PendingOf(ops) == {i \in 1..Len(calls) : calls[i].op \in ops}

\* undo() up to `await this.revertChange(currentEntry)`
undoBegin ==
    /\ Len(calls) < MaxCalls
    /\ IF ~canUndo(currentPosition)
       THEN /\ last' = Settled("undo", "false", "none")
            /\ UNCHANGED calls
       ELSE /\ calls' = Append(calls, Suspended("undo", ElementAt(historyStack, currentPosition)))
            /\ UNCHANGED last
    /\ UNCHANGED <<historyStack, currentPosition, tables, change_history, now,
                   base, tailTables, hitBottom, beforeUndo>>

\* undo() from the answer of revertChange on: `this.currentPosition--` on the
\* cursor as it is by then
undoResume(i, outcome) ==
    /\ i \in PendingOf({"undo"})
    /\ LET reverted == revertChange(tables, calls[i].entry, outcome)
       IN  /\ tables' = reverted.tables
           /\ currentPosition' = IF reverted.success THEN currentPosition - 1
                                                     ELSE currentPosition
           /\ last' = Settled("undo", IF reverted.success THEN "true" ELSE "false",
                              reverted.storage)
    /\ calls' = RemoveAt(calls, i)
    /\ UNCHANGED <<historyStack, change_history, now, base, tailTables, hitBottom,
                   beforeUndo>>

\* redo() up to `await this.applyChange(nextEntry)`: the cursor has moved
redoBegin ==
    /\ Len(calls) < MaxCalls
    /\ IF ~canRedo(historyStack, currentPosition)
       THEN /\ last' = Settled("redo", "false", "none")
            /\ UNCHANGED <<calls, currentPosition>>
       ELSE /\ currentPosition' = currentPosition + 1
            /\ calls' = Append(calls,
                               Suspended("redo", ElementAt(historyStack, currentPosition + 1)))
            /\ UNCHANGED last
    /\ UNCHANGED <<historyStack, tables, change_history, now,
                   base, tailTables, hitBottom, beforeUndo>>

\* redo() from the answer of applyChange on: `this.currentPosition--` on the
\* cursor as it is by then when applyChange failed
redoResume(i, outcome) ==
    /\ i \in PendingOf({"redo"})
    /\ LET applied == applyChange(tables, calls[i].entry, outcome)
       IN  /\ tables' = applied.tables
           /\ currentPosition' = IF applied.success THEN currentPosition
                                                    ELSE currentPosition - 1
           /\ last' = Settled("redo", IF applied.success THEN "true" ELSE "false",
                              applied.storage)
    /\ calls' = RemoveAt(calls, i)
    /\ UNCHANGED <<historyStack, change_history, now, base, tailTables, hitBottom,
                   beforeUndo>>

\* recordChange(...) up to the await of the insert into change_history
recordChangeBegin(limit, operation, tableName, recordId, oldData, newData) ==
    /\ Len(calls) < MaxCalls
    /\ now + Cardinality(PendingOf({"recordChange"})) < limit
    /\ calls' = Append(calls, Suspended("recordChange",
                         [operation_type |-> operation,
                          table_name     |-> tableName,
                          record_id      |-> recordId,
                          old_data       |-> oldData,
                          new_data       |-> newData]))
    /\ UNCHANGED <<historyStack, currentPosition, tables, change_history, now, last,
                   base, tailTables, hitBottom, beforeUndo>>

\* recordChange(...) from the answer of the insert on: addToStack(data) on the
\* journal and the cursor as they are by then
recordChangeResume(i, outcome) ==
    /\ i \in PendingOf({"recordChange"})
    /\ LET e     == calls[i].entry
           data  == [id             |-> now + 1,
                     operation_type |-> e.operation_type,
                     table_name     |-> e.table_name,
                     record_id      |-> e.record_id,
                     old_data       |-> e.old_data,
                     new_data       |-> e.new_data,
                     timestamp      |-> now]
           added == addToStack(historyStack, currentPosition, data)
       IN  IF InsertThrows(outcome)
           THEN /\ last' = Settled("recordChange", "rejected", outcome)
                /\ UNCHANGED <<historyStack, currentPosition, change_history, now>>
           ELSE /\ change_history' = Append(change_history, data)
                /\ now' = now + 1
                /\ historyStack' = added.historyStack
                /\ currentPosition' = added.currentPosition
                /\ last' = Settled("recordChange", "resolved", outcome)
    /\ calls' = RemoveAt(calls, i)
    /\ UNCHANGED <<tables, base, tailTables, hitBottom, beforeUndo>>

\* loadHistory(limit) up to the await of the query
loadHistoryBegin(limit) ==
    /\ Len(calls) < MaxCalls
    /\ calls' = Append(calls, Suspended("loadHistory", [limit |-> limit]))
    /\ UNCHANGED <<historyStack, currentPosition, tables, change_history, now, last,
                   base, tailTables, hitBottom, beforeUndo>>

\* loadHistory(limit) from the answer of the query on
loadHistoryResume(i, outcome) ==
    /\ i \in PendingOf({"loadHistory"})
    /\ LET data == Limit(OrderByTimestampDesc(RowsOf(change_history)), calls[i].entry.limit)
       IN  /\ IF outcome = "ok"
              THEN /\ historyStack' = Reverse(data)
                   /\ currentPosition' = Len(data) - 1
              ELSE UNCHANGED <<historyStack, currentPosition>>
           /\ last' = Settled("loadHistory",
                              IF outcome = "ok" /\ data # << >> THEN "rows" ELSE "empty",
                              outcome)
    /\ calls' = RemoveAt(calls, i)
    /\ UNCHANGED <<tables, change_history, now, base, tailTables, hitBottom, beforeUndo>>

\* SpecOverlappingUndo: changes are recorded while no call is suspended, and
\* undo() is called again while earlier undo() calls are suspended
RecordBetweenCalls ==
    /\ calls = << >>
    /\ \E operation \in OperationTypes, args \in DirectArgs :
          recordChange(MaxOverlapRecords, operation, args.tableName, args.recordId,
                       args.oldData, args.newData, "ok")
    /\ UNCHANGED <<tables, base, tailTables, calls, controls, loader>>

UndoBegin == undoBegin /\ UNCHANGED <<controls, loader>>

UndoResume ==
    \E i \in 1..Len(calls), outcome \in StorageOutcomes :
        undoResume(i, outcome) /\ UNCHANGED <<controls, loader>>

NextOverlappingUndo == RecordBetweenCalls \/ UndoBegin \/ UndoResume

SpecOverlappingUndo == Init /\ [][NextOverlappingUndo]_vars

\* SpecInterleaved: one undo() or redo() at a time, with recordChange() and
\* loadHistory() calls that start and complete at any moment, also while the
\* undo() or redo() is suspended
UndoAlone ==
    /\ PendingOf({"undo", "redo"}) = {}
    /\ undoBegin
    /\ UNCHANGED <<controls, loader>>

RedoAlone ==
    /\ PendingOf({"undo", "redo"}) = {}
    /\ redoBegin
    /\ UNCHANGED <<controls, loader>>

RedoResume ==
    \E i \in 1..Len(calls), outcome \in StorageOutcomes :
        redoResume(i, outcome) /\ UNCHANGED <<controls, loader>>

RecordChangeBegin ==
    \E operation \in OperationTypes, args \in DirectArgs :
        /\ recordChangeBegin(MaxOverlapRecords, operation, args.tableName, args.recordId,
                             args.oldData, args.newData)
        /\ UNCHANGED <<controls, loader>>

RecordChangeResume ==
    \E i \in 1..Len(calls), outcome \in StorageOutcomes :
        recordChangeResume(i, outcome) /\ UNCHANGED <<controls, loader>>

LoadHistoryBegin ==
    \E limit \in LoadLimits : loadHistoryBegin(limit) /\ UNCHANGED <<controls, loader>>

LoadHistoryResume ==
    \E i \in 1..Len(calls), outcome \in StorageOutcomes :
        loadHistoryResume(i, outcome) /\ UNCHANGED <<controls, loader>>

NextInterleaved ==
    \/ UndoAlone
    \/ UndoResume
    \/ RedoAlone
    \/ RedoResume
    \/ RecordChangeBegin
    \/ RecordChangeResume
    \/ LoadHistoryBegin
    \/ LoadHistoryResume

SpecInterleaved == Init /\ [][NextInterleaved]_vars

\* SpecControls: undo and redo started from the buttons of
\* FloatingHistoryControls (ChangeHistoryTab guards its buttons the same way),
\* changes recorded by the rest of the application while no call is suspended

\* updateStatus(): the component reads getHistoryStats()
updateStatus(c, hs, cp) ==
    Controls(c.isUndoing, c.isRedoing,
             getHistoryStats(hs, cp).canUndo, getHistoryStats(hs, cp).canRedo)

\* a click on the undo button (disabled = !canUndo || isUndoing) runs
\* handleUndo up to `await changeHistoryManager.undo()`
handleUndoBegin ==
    /\ UNCHANGED loader
    /\ controls.canUndo
    /\ ~controls.isUndoing
    /\ undoBegin
    /\ controls' = IF canUndo(currentPosition)
                   THEN Controls(TRUE, controls.isRedoing, controls.canUndo, controls.canRedo)
                   ELSE controls

\* handleUndo from the answer of undo() on: updateStatus() when it returned
\* true, setIsUndoing(false) in any case
handleUndoResume(i, outcome) ==
    /\ UNCHANGED loader
    /\ undoResume(i, outcome)
    /\ controls' = LET busy == Controls(FALSE, controls.isRedoing,
                                        controls.canUndo, controls.canRedo)
                   IN  IF last'.result = "true"
                       THEN updateStatus(busy, historyStack', currentPosition')
                       ELSE busy

\* a click on the redo button (disabled = !canRedo || isRedoing) runs
\* handleRedo up to `await changeHistoryManager.redo()`
handleRedoBegin ==
    /\ UNCHANGED loader
    /\ controls.canRedo
    /\ ~controls.isRedoing
    /\ redoBegin
    /\ controls' = IF canRedo(historyStack, currentPosition)
                   THEN Controls(controls.isUndoing, TRUE, controls.canUndo, controls.canRedo)
                   ELSE controls

\* handleRedo from the answer of redo() on
handleRedoResume(i, outcome) ==
    /\ UNCHANGED loader
    /\ redoResume(i, outcome)
    /\ controls' = LET busy == Controls(controls.isUndoing, FALSE,
                                        controls.canUndo, controls.canRedo)
                   IN  IF last'.result = "true"
                       THEN updateStatus(busy, historyStack', currentPosition')
                       ELSE busy

\* setInterval(updateStatus, 5000)
StatusTick ==
    /\ controls' = updateStatus(controls, historyStack, currentPosition)
    /\ UNCHANGED <<historyStack, currentPosition, tables, change_history, now, last,
                   base, tailTables, hitBottom, beforeUndo, calls, loader>>

HandleUndoResume ==
    \E i \in 1..Len(calls), outcome \in StorageOutcomes : handleUndoResume(i, outcome)

HandleRedoResume ==
    \E i \in 1..Len(calls), outcome \in StorageOutcomes : handleRedoResume(i, outcome)

NextControls ==
    \/ RecordBetweenCalls
    \/ StatusTick
    \/ handleUndoBegin
    \/ HandleUndoResume
    \/ handleRedoBegin
    \/ HandleRedoResume

SpecControls == Init /\ [][NextControls]_vars

\* ------------------------------------------------------------------------
\* SpecLazyLoader: IntelligentLazyLoader with register() called once per id,
\* forceLoad() called at any moment the event loop is free, timers that fire
\* and loader functions that settle

\* everything that is not the lazy loader
managerVars == <<historyStack, currentPosition, tables, change_history, now, last,
                 base, tailTables, hitBottom, beforeUndo, calls, controls>>

LoaderOutcomes == {"ok", "error"}

\* loadQueue without id
WithoutId(queue, id) == SelectSeq(queue, LAMBDA q : q # id)

\* the index addToQueue inserts at: before the first queued item of lower
\* priority, else at the end (1-based)
InsertIndex(items, queue, id) ==
    LET lower == {i \in 1..Len(queue) :
                    /\ items[queue[i]] # NotRegistered
                    /\ PriorityIndex(items[id].config.priority)
                         < PriorityIndex(items[queue[i]].config.priority)}
    IN  IF lower = {} THEN Len(queue) + 1
        ELSE CHOOSE i \in lower : \A k \in lower : i <= k

\* loadQueue.splice(insertIndex, 0, id)
InsertAt(queue, index, id) ==
    SubSeq(queue, 1, index - 1) \o <<id>> \o SubSeq(queue, index, Len(queue))

\* processQueue() up to its loop: nothing when it is already running or the
\* queue is empty
processQueueBegin(l) ==
    IF l.isProcessing \/ l.loadQueue = << >>
    THEN l
    ELSE [l EXCEPT !.isProcessing = TRUE, !.at = At("loop", "none")]

\* addToQueue(id)
addToQueue(l, id) ==
    IF l.items[id] = NotRegistered
    THEN l
    ELSE LET queue  == WithoutId(l.loadQueue, id)
             queued == [l EXCEPT !.loadQueue =
                                    InsertAt(queue, InsertIndex(l.items, queue, id), id)]
         IN  IF ~l.isProcessing THEN processQueueBegin(queued) ELSE queued

\* loadItem(id) up to `await item.loader()`
loadItemBegin(l, id) ==
    [l EXCEPT !.items[id].status = "loading",
              !.invoked[id] = @ + 1]

\* loadItem(id) from the answer of the loader on; the listeners forceLoad
\* added remove themselves when notified
loadItemEnd(l, id, outcome) ==
    [l EXCEPT !.items[id].status = IF outcome = "ok" THEN "loaded" ELSE "error",
              !.listeners[id] = 0]

\* dependencies.every(dep registered and loaded)
dependenciesReady(items, config) ==
    \A depId \in config.dependencies :
        /\ depId \in DOMAIN items
        /\ items[depId] # NotRegistered
        /\ items[depId].status = "loaded"

\* register(id, loader, config)
register(id, config) ==
    /\ loader.at.place # "loop"
    /\ loader.items[id] = NotRegistered
    /\ loader' = addToQueue([loader EXCEPT !.items[id] = LazyLoadItem(config, "pending")], id)
    /\ UNCHANGED managerVars

\* one pass of the while loop of processQueue, run without yielding: it ends
\* the method, goes round again, or suspends at the delay or at loadItem
processQueueStep ==
    /\ loader.at.place = "loop"
    /\ IF loader.loadQueue = << >>
       THEN loader' = [loader EXCEPT !.isProcessing = FALSE, !.at = At("idle", "none")]
       ELSE LET id    == Head(loader.loadQueue)
                rest  == [loader EXCEPT !.loadQueue = Tail(loader.loadQueue)]
                again == [loader EXCEPT !.loadQueue = Append(Tail(loader.loadQueue), id)]
                item  == loader.items[id]
            IN  IF item = NotRegistered \/ item.status # "pending"
                THEN loader' = rest
                ELSE IF ~dependenciesReady(loader.items, item.config)
                THEN loader' = again
                ELSE IF item.config.condition = "false"
                THEN loader' = again
                ELSE IF item.config.delay > 0
                THEN loader' = [rest EXCEPT !.at = At("delay", id)]
                ELSE loader' = [loadItemBegin(rest, id) EXCEPT !.at = At("load", id)]
    /\ UNCHANGED managerVars

\* the setTimeout of the delay fires: processQueue goes on to loadItem(id)
delayElapses ==
    /\ loader.at.place = "delay"
    /\ loader' = [loadItemBegin(loader, loader.at.id) EXCEPT
                     !.at = At("load", loader.at.id)]
    /\ UNCHANGED managerVars

\* the loader called by processQueue's loadItem settles; processQueue resumes
\* its loop
loadItemSettles(outcome) ==
    /\ loader.at.place = "load"
    /\ loader' = [loadItemEnd(loader, loader.at.id, outcome) EXCEPT
                     !.at = At("loop", "none")]
    /\ UNCHANGED managerVars

\* forceLoad(id), up to its first await
forceLoad(limit, id) ==
    /\ loader.at.place # "loop"
    /\ loader.forceLoads < limit
    /\ LET item    == loader.items[id]
           counted == [loader EXCEPT !.forceLoads = @ + 1]
       IN  IF item = NotRegistered
           THEN loader' = counted
           ELSE IF item.status = "loaded"
           THEN loader' = counted
           ELSE IF item.status = "loading"
           THEN loader' = [counted EXCEPT !.listeners[id] = @ + 1]
           ELSE loader' = [loadItemBegin(counted, id) EXCEPT !.forced[id] = @ + 1]
    /\ UNCHANGED managerVars

\* a loader called by forceLoad's loadItem settles
forcedLoadSettles(id, outcome) ==
    /\ loader.at.place # "loop"
    /\ loader.forced[id] > 0
    /\ loader' = [loadItemEnd(loader, id, outcome) EXCEPT !.forced[id] = @ - 1]
    /\ UNCHANGED managerVars

Register == \E id \in LoaderIds, config \in Configs : register(id, config)

LoadItemSettles == \E outcome \in LoaderOutcomes : loadItemSettles(outcome)

ForceLoad == \E id \in LoaderIds : forceLoad(MaxForceLoads, id)

ForcedLoadSettles ==
    \E id \in LoaderIds, outcome \in LoaderOutcomes : forcedLoadSettles(id, outcome)

NextLazyLoader ==
    \/ Register
    \/ processQueueStep
    \/ delayElapses
    \/ LoadItemSettles
    \/ ForceLoad
    \/ ForcedLoadSettles

\* code that runs is run to its next await, timers fire, loaders settle
SpecLazyLoader ==
    /\ Init
    /\ [][NextLazyLoader]_vars
    /\ WF_vars(processQueueStep)
    /\ WF_vars(delayElapses)
    /\ WF_vars(LoadItemSettles)
    /\ WF_vars(ForcedLoadSettles)

\* SpecAnyEntry: entries of any shape reach the journal: recordChange is called
\* with either snapshot present or absent and, its operation argument being
\* checked by the compiler only, with an operation_type the manager does not
\* know; undo and redo free to fail
AnyOperationTypes == OperationTypes \cup {"MERGE"}

AnySnapshots == {NULL, [id |-> "c1", name |-> "Acme"]}

RecordAnyEntry ==
    \E operation \in AnyOperationTypes, oldData \in AnySnapshots, newData \in AnySnapshots :
        /\ recordChange(MaxAnyRecords, operation, "clients", "c1", oldData, newData, "ok")
        /\ UNCHANGED <<tables, base, tailTables, calls, controls, loader>>

NextAnyEntry == RecordAnyEntry \/ Undo \/ Redo

SpecAnyEntry == Init /\ [][NextAnyEntry]_vars

\* ------------------------------------------------------------------------
\* Properties
\* ------------------------------------------------------------------------

Min(a, b) == IF a <= b THEN a ELSE b

\* what an entry means for its table when it is carried out
\*   CREATE: new_data is stored under record_id;  UPDATE: the row with id
\*   record_id becomes new_data;  DELETE: there is no row with id record_id
ForwardEffect(t, e) ==
    CASE e.operation_type = "CREATE" ->
            [t EXCEPT ![e.table_name][e.record_id] = [e.new_data EXCEPT !.id = e.record_id]]
      [] e.operation_type = "UPDATE" ->
            IF t[e.table_name][e.record_id] = NoRow THEN t
            ELSE [t EXCEPT ![e.table_name][e.record_id] = e.new_data]
      [] e.operation_type = "DELETE" ->
            [t EXCEPT ![e.table_name][e.record_id] = NoRow]

\* what an entry means for its table when it is taken back
\*   CREATE: there is no row with id record_id;  UPDATE: the row with id
\*   record_id becomes old_data;  DELETE: old_data is stored under record_id
Reversal(t, e) ==
    CASE e.operation_type = "CREATE" ->
            [t EXCEPT ![e.table_name][e.record_id] = NoRow]
      [] e.operation_type = "UPDATE" ->
            IF t[e.table_name][e.record_id] = NoRow THEN t
            ELSE [t EXCEPT ![e.table_name][e.record_id] = e.old_data]
      [] e.operation_type = "DELETE" ->
            [t EXCEPT ![e.table_name][e.record_id] = [e.old_data EXCEPT !.id = e.record_id]]

\* the forward effects of the first n entries of hs, in journal order
RECURSIVE ReplayForward(_, _, _)
ReplayForward(t, hs, n) ==
    IF n = 0 THEN t ELSE ForwardEffect(ReplayForward(t, hs, n - 1), hs[n])

\* C1: in every reachable state, whatever recordChange, undo, redo,
\* loadHistory and clearOldHistory calls were made and however their storage
\* calls went, -1 <= currentPosition < historyStack.length
C1_PositionInBounds ==
    /\ -1 <= currentPosition
    /\ currentPosition < Len(historyStack)

\* an undo has just taken the cursor of a journal of two or more entries to -1
C1_Witness ==
    /\ last.op = "undo"
    /\ last.result = "true"
    /\ currentPosition = -1
    /\ Len(historyStack) >= 2

\* C2: when every entry was recorded together with the mutation it describes
\* and nothing else writes the tables, the tables are what the forward effects
\* of the entries 0..currentPosition, in journal order, make of the tables as
\* they were before the first entry
C2_TablesMatchCursor ==
    tables = ReplayForward(base, historyStack, currentPosition + 1)

\* the cursor is in the middle of the journal after an undo and the tables differ
\* from their first contents
C2_Witness ==
    /\ last.op = "undo"
    /\ last.result = "true"
    /\ currentPosition >= 0
    /\ canRedo(historyStack, currentPosition)
    /\ tables # base

C4_FullUndoThenFullRedo ==
    /\ currentPosition = -1 => ~canUndo(currentPosition)
    /\ (hitBottom /\ currentPosition = Len(historyStack) - 1) =>
          /\ ~canRedo(historyStack, currentPosition)
          /\ tables = tailTables

\* three entries were undone down to -1 and redone back to the tail
C4_Witness ==
    /\ hitBottom
    /\ Len(historyStack) = 3
    /\ currentPosition = 2
    /\ last.op = "redo"
    /\ last.result = "true"
    /\ tables # base

\* C5: a successful recordChange made while canRedo holds discards the entries
\* after the cursor, appends the new entry, puts the cursor on it (canRedo is
\* false) and keeps the entries 0..old cursor as they were
C5_RecordDiscardsRedoTail ==
    [][(last'.op = "recordChange" /\ last'.result = "resolved"
            /\ canRedo(historyStack, currentPosition)) =>
        /\ Len(historyStack') = currentPosition + 2
        /\ SubSeq(historyStack', 1, currentPosition + 1)
              = SubSeq(historyStack, 1, currentPosition + 1)
        /\ historyStack'[currentPosition + 2] = change_history'[Len(change_history')]
        /\ currentPosition' = Len(historyStack') - 1
        /\ ~canRedo(historyStack', currentPosition')]_vars

\* the first and the third entry recorded are in the journal, the second one,
\* undone before the third was recorded, is not
C5_Witness ==
    /\ last.op = "recordChange"
    /\ last.result = "resolved"
    /\ Len(historyStack) = 2
    /\ historyStack[1].id = 1
    /\ historyStack[2].id = 3

\* C6: when the insert into change_history fails, recordChange rejects and
\* leaves historyStack and currentPosition alone; recordChange changes the
\* journal only by adding the row the durable table has just taken
C6_FailedInsertLeavesJournal ==
    [][/\ (last'.op = "recordChange" /\ last'.storage = "error") =>
            /\ last'.result = "rejected"
            /\ historyStack' = historyStack
            /\ currentPosition' = currentPosition
       /\ (last'.op = "recordChange" /\ historyStack' # historyStack) =>
            /\ last'.storage = "ok"
            /\ Len(change_history') = Len(change_history) + 1
            /\ historyStack'[Len(historyStack')] = change_history'[Len(change_history')]
      ]_vars

\* a recordChange has been rejected with one entry in the journal
C6_Witness ==
    /\ last.op = "recordChange"
    /\ last.result = "rejected"
    /\ last.storage = "error"
    /\ Len(historyStack) = 1
    /\ Len(change_history) = 1

\* C7 as stated: after N >= 1 successful recordChange calls and nothing else,
\* currentPosition = N - 1 and canRedo is false (now counts the successful calls)
C7_CursorIsCountMinusOne ==
    now >= 1 =>
        /\ currentPosition = now - 1
        /\ ~canRedo(historyStack, currentPosition)

\* C7 amended: after N >= 1 successful recordChange calls and nothing else,
\* currentPosition = min(N, maxHistorySize) - 1 and canRedo is false
C7_CursorIsCappedCountMinusOne ==
    now >= 1 =>
        /\ currentPosition = Min(now, maxHistorySize) - 1
        /\ ~canRedo(historyStack, currentPosition)

\* one call more than the cap: the oldest entry is gone and the cursor is on
\* the last of maxHistorySize entries
C7_Witness ==
    /\ now = maxHistorySize + 1
    /\ last.op = "recordChange"
    /\ last.result = "resolved"
    /\ Len(historyStack) = maxHistorySize
    /\ historyStack[1].id = 2
    /\ currentPosition = maxHistorySize - 1

\* C8: when canUndo holds, undo issues the storage call of the reversal of the
\* entry at currentPosition (none only for an UPDATE or DELETE without
\* old_data); when that call succeeds the table shows the reversal, undo
\* returns true and currentPosition is one less
C8_UndoAppliesReversal ==
    [][(last'.op = "undo" /\ canUndo(currentPosition)) =>
        LET entry == EntryAt(historyStack, currentPosition)
        IN  /\ (entry.operation_type = "CREATE" \/ entry.old_data # NULL)
                  => last'.storage # "none"
            /\ last'.storage = "ok" =>
                  /\ last'.result = "true"
                  /\ currentPosition' = currentPosition - 1
                  /\ tables' = Reversal(tables, entry)]_vars

\* a DELETE entry has just been undone: its row is stored again with old_data
C8_Witness ==
    /\ last.op = "undo"
    /\ last.storage = "ok"
    /\ last.result = "true"
    /\ LET entry == EntryAt(historyStack, currentPosition + 1)
       IN  /\ entry.operation_type = "DELETE"
           /\ tables[entry.table_name][entry.record_id] = entry.old_data

\* C9: when canRedo holds, redo issues the storage call of the forward effect
\* of the entry at currentPosition + 1 (none only for a CREATE or UPDATE
\* without new_data; a DELETE needs no new_data); when that call succeeds the
\* table shows the forward effect, redo returns true and currentPosition is
\* one more
C9_RedoAppliesForwardEffect ==
    [][(last'.op = "redo" /\ canRedo(historyStack, currentPosition)) =>
        LET entry == EntryAt(historyStack, currentPosition + 1)
        IN  /\ (entry.operation_type = "DELETE" \/ entry.new_data # NULL)
                  => last'.storage # "none"
            /\ last'.storage = "ok" =>
                  /\ last'.result = "true"
                  /\ currentPosition' = currentPosition + 1
                  /\ tables' = ForwardEffect(tables, entry)]_vars

\* a DELETE entry without new_data has just been redone: its row is gone again
C9_Witness ==
    /\ last.op = "redo"
    /\ last.storage = "ok"
    /\ last.result = "true"
    /\ LET entry == EntryAt(historyStack, currentPosition)
       IN  /\ entry.operation_type = "DELETE"
           /\ entry.new_data = NULL
           /\ entry.old_data # NULL
           /\ tables[entry.table_name][entry.record_id] = NoRow
           /\ base[entry.table_name][entry.record_id] # NoRow

\* C10: when the storage call of undo fails, undo returns false and
\* currentPosition and historyStack are as before the call
C10_FailedUndoLeavesCursor ==
    [][(last'.op = "undo" /\ last'.storage = "error") =>
        /\ last'.result = "false"
        /\ currentPosition' = currentPosition
        /\ historyStack' = historyStack]_vars

\* an undo has failed at its storage call with the cursor on the second entry
C10_Witness ==
    /\ last.op = "undo"
    /\ last.storage = "error"
    /\ last.result = "false"
    /\ currentPosition = 1

\* C11: when the storage call of redo fails, redo returns false (it does not
\* throw), currentPosition is what it was before the call (the tentative
\* increment is taken back once) and historyStack is unchanged
C11_FailedRedoLeavesCursor ==
    [][(last'.op = "redo" /\ last'.storage = "error") =>
        /\ last'.result = "false"
        /\ currentPosition' = currentPosition
        /\ historyStack' = historyStack]_vars

\* a redo has failed at its storage call with the cursor before the first of
\* two or more entries
C11_Witness ==
    /\ last.op = "redo"
    /\ last.storage = "error"
    /\ last.result = "false"
    /\ currentPosition = -1
    /\ Len(historyStack) >= 2

\* the entry cannot be reverted: an UPDATE or DELETE without old_data, or an
\* operation_type that is none of CREATE, UPDATE, DELETE
NotRevertible(entry) ==
    \/ entry.operation_type \in {"UPDATE", "DELETE"} /\ entry.old_data = NULL
    \/ entry.operation_type \notin OperationTypes

\* the entry cannot be applied: a CREATE or UPDATE without new_data, or an
\* operation_type that is none of CREATE, UPDATE, DELETE
NotApplicable(entry) ==
    \/ entry.operation_type \in {"CREATE", "UPDATE"} /\ entry.new_data = NULL
    \/ entry.operation_type \notin OperationTypes

\* C12: undo on an UPDATE or DELETE entry without old_data, redo on a CREATE
\* or UPDATE entry without new_data, and undo or redo on an entry of unknown
\* operation_type return false, issue no storage call, leave every target
\* table as it was and leave currentPosition at its value before the call
C12_MissingSnapshotAborts ==
    [][/\ (last'.op = "undo" /\ canUndo(currentPosition)
              /\ NotRevertible(EntryAt(historyStack, currentPosition))) =>
            /\ last'.result = "false"
            /\ last'.storage = "none"
            /\ tables' = tables
            /\ currentPosition' = currentPosition
       /\ (last'.op = "redo" /\ canRedo(historyStack, currentPosition)
              /\ NotApplicable(EntryAt(historyStack, currentPosition + 1))) =>
            /\ last'.result = "false"
            /\ last'.storage = "none"
            /\ tables' = tables
            /\ currentPosition' = currentPosition
      ]_vars

\* a redo has just given up on an UPDATE entry without new_data, after the
\* undo of that entry had restored its old_data
C12_Witness ==
    /\ last.op = "redo"
    /\ last.result = "false"
    /\ last.storage = "none"
    /\ canRedo(historyStack, currentPosition)
    /\ LET entry == EntryAt(historyStack, currentPosition + 1)
       IN  /\ entry.operation_type = "UPDATE"
           /\ entry.new_data = NULL
           /\ entry.old_data # NULL

\* C13: when canUndo is false (currentPosition = -1), undo returns false
\* without a storage call, and currentPosition, historyStack, the durable
\* change_history table and every target table are as before the call
C13_UndoAtBottomIsNoOp ==
    [][(last'.op = "undo" /\ ~canUndo(currentPosition)) =>
        /\ currentPosition = -1
        /\ last'.result = "false"
        /\ last'.storage = "none"
        /\ currentPosition' = currentPosition
        /\ historyStack' = historyStack
        /\ change_history' = change_history
        /\ tables' = tables]_vars

\* an undo has been refused with the cursor before the first entry of a
\* journal that is not empty
C13_Witness ==
    /\ last.op = "undo"
    /\ last.result = "false"
    /\ last.storage = "none"
    /\ currentPosition = -1
    /\ Len(historyStack) >= 1
    /\ Len(change_history) >= 1

\* C14: when canRedo is false (currentPosition = historyStack.length - 1),
\* redo returns false without a storage call, and currentPosition,
\* historyStack, the durable change_history table and every target table are
\* as before the call
C14_RedoAtTailIsNoOp ==
    [][(last'.op = "redo" /\ ~canRedo(historyStack, currentPosition)) =>
        /\ currentPosition = Len(historyStack) - 1
        /\ last'.result = "false"
        /\ last'.storage = "none"
        /\ currentPosition' = currentPosition
        /\ historyStack' = historyStack
        /\ change_history' = change_history
        /\ tables' = tables]_vars

\* a redo has been refused with the cursor on the last entry of a journal
\* that is not empty
C14_Witness ==
    /\ last.op = "redo"
    /\ last.result = "false"
    /\ last.storage = "none"
    /\ Len(historyStack) >= 1
    /\ currentPosition = Len(historyStack) - 1

\* C15: in every reachable state canUndo() is true exactly when
\* currentPosition >= 0 and canRedo() exactly when currentPosition <
\* historyStack.length - 1, on the fields as they are now; getHistoryStats()
\* reports these two booleans and undoCount + redoCount = totalEntries
C15_StatsAgreeWithCursor ==
    LET stats == getHistoryStats(historyStack, currentPosition)
    IN  /\ canUndo(currentPosition) <=> currentPosition >= 0
        /\ canRedo(historyStack, currentPosition)
              <=> currentPosition < Len(historyStack) - 1
        /\ stats.canUndo <=> currentPosition >= 0
        /\ stats.canRedo <=> currentPosition < Len(historyStack) - 1
        /\ stats.totalEntries = Len(historyStack)
        /\ stats.undoCount + stats.redoCount = stats.totalEntries

\* the cursor is inside a journal of three entries after an undo: one entry
\* to undo, two to redo
C15_Witness ==
    /\ last.op = "undo"
    /\ last.result = "true"
    /\ Len(historyStack) = 3
    /\ currentPosition = 0
    /\ getHistoryStats(historyStack, currentPosition).undoCount = 1
    /\ getHistoryStats(historyStack, currentPosition).redoCount = 2

\* C16: after every recordChange and every loadHistory(limit) the in-memory
\* journal holds at most maxHistorySize entries; when an append goes beyond
\* the cap the entries that leave are the oldest ones and currentPosition is
\* on the entry just appended
C16_JournalWithinCap ==
    [][/\ Len(historyStack') <= maxHistorySize
       /\ (last'.op = "recordChange" /\ last'.result = "resolved"
              /\ ~canRedo(historyStack, currentPosition)
              /\ Len(historyStack) + 1 > maxHistorySize) =>
            LET appended == Append(historyStack, change_history'[Len(change_history')])
            IN  /\ historyStack' = SubSeq(appended, Len(appended) - Len(historyStack') + 1,
                                           Len(appended))
                /\ currentPosition' = Len(historyStack') - 1
      ]_vars

\* C17: a clearOldHistory(daysToKeep) whose delete succeeds removes from the
\* durable change_history table the rows with a timestamp earlier than now
\* minus daysToKeep days and no other row, removes no row of a target table,
\* and leaves currentPosition and historyStack as they were
C17_SweepDeletesOnlyOldRows ==
    [][\A daysToKeep \in DaysToKeep :
          (last'.op = "clearOldHistory" /\ clearOldHistory(daysToKeep, "ok")) =>
            /\ change_history' =
                  SelectSeq(change_history, LAMBDA r : ~(r.timestamp < now - daysToKeep))
            /\ tables' = tables
            /\ currentPosition' = currentPosition
            /\ historyStack' = historyStack
      ]_vars

\* a sweep has removed the older of two durable rows and kept the newer one;
\* both are still in the in-memory journal
C17_Witness ==
    /\ last.op = "clearOldHistory"
    /\ last.storage = "ok"
    /\ now = 2
    /\ Len(change_history) = 1
    /\ change_history[1].timestamp = 1
    /\ Len(historyStack) = 2
    /\ currentPosition = 1

\* C18: when the delete of clearOldHistory fails, the promise still resolves
\* (it never rejects) and the durable table, historyStack and currentPosition
\* are as before the call
C18_FailedSweepIsSwallowed ==
    [][(last'.op = "clearOldHistory") =>
        /\ last'.result = "resolved"
        /\ last'.storage = "error" =>
              /\ change_history' = change_history
              /\ historyStack' = historyStack
              /\ currentPosition' = currentPosition]_vars

\* a sweep has failed and resolved with two rows left in the durable table
C18_Witness ==
    /\ last.op = "clearOldHistory"
    /\ last.storage = "error"
    /\ last.result = "resolved"
    /\ Len(change_history) = 2
    /\ Len(historyStack) = 2

\* C19: a loadHistory(limit) whose query succeeds replaces the in-memory
\* journal with the durable rows of the latest timestamps, at most limit of
\* them, oldest first, and puts currentPosition on the last index; when the
\* query fails loadHistory resolves to an empty list and leaves historyStack
\* and currentPosition as they were
C19_LoadReplacesJournal ==
    [][/\ \A limit \in LoadLimits :
            (last'.op = "loadHistory" /\ last'.storage = "ok" /\ loadHistory(limit, "ok")) =>
              LET durable == RowsOf(change_history)
                  loaded  == RowsOf(historyStack')
              IN  /\ Len(historyStack') = Min(limit, Cardinality(durable))
                  /\ Cardinality(loaded) = Len(historyStack')
                  /\ loaded \subseteq durable
                  /\ \A r \in durable \ loaded : \A q \in loaded : r.timestamp < q.timestamp
                  /\ \A i \in 1..Len(historyStack') : \A j \in 1..Len(historyStack') :
                        i < j => historyStack'[i].timestamp < historyStack'[j].timestamp
                  /\ currentPosition' = Len(historyStack') - 1
       /\ (last'.op = "loadHistory" /\ last'.storage = "error") =>
              /\ last'.result = "empty"
              /\ historyStack' = historyStack
              /\ currentPosition' = currentPosition
      ]_vars

\* a reload has put the three durable rows, oldest first, in the journal
\* and the cursor on the last of them
C19_Witness ==
    /\ last.op = "loadHistory"
    /\ last.storage = "ok"
    /\ last.result = "rows"
    /\ Len(change_history) = 3
    /\ historyStack = change_history
    /\ currentPosition = 2

\* C20: once a successful undo made through useChangeHistory().undo has
\* resolved, currentPosition is one less than before the call and canRedo is
\* true, the entry just undone being the next one to redo
C20_WrappedUndoStepsBack ==
    [][(last'.op = "useChangeHistory.undo" /\ last'.result = "true") =>
        /\ currentPosition' = currentPosition - 1
        /\ canRedo(historyStack', currentPosition')
        /\ EntryAt(historyStack', currentPosition' + 1)
              = EntryAt(historyStack, currentPosition)]_vars

\* C21: every UPDATE or DELETE entry that saveToDatabase or deleteFromDatabase
\* of DataManagerWithHistory records carries an old_data that is not null and
\* is the row as it was right before the mutation, also when the select of
\* the existing row fails or finds nothing
C21_RecordedOldDataIsPriorRow ==
    [][(last'.op \in {"saveToDatabase", "deleteFromDatabase"} /\ last'.journalled = 1) =>
        LET entry == change_history'[Len(change_history')]
        IN  entry.operation_type \in {"UPDATE", "DELETE"} =>
              /\ entry.old_data # NULL
              /\ entry.old_data = tables[entry.table_name][entry.record_id]]_vars

\* C22: for every call of saveToDatabase or deleteFromDatabase of
\* DataManagerWithHistory the mutation of the target table is persisted
\* exactly when one change_history row describing it is persisted: no
\* mutation stays without its journal row and no journal row is written for
\* a mutation that failed
C22_MutationIffJournalRow ==
    [][(last'.op \in {"saveToDatabase", "deleteFromDatabase"}) =>
        /\ last'.wrote <=> last'.journalled = 1
        /\ last'.journalled = 1 =>
              LET entry == change_history'[Len(change_history')]
              IN  tables'[entry.table_name][entry.record_id]
                    = (IF entry.operation_type = "DELETE" THEN NoRow ELSE entry.new_data)
      ]_vars

\* C28: deleteFromDatabase of DataManagerWithHistory returns true exactly
\* when the delete on the target table was carried out: never false after
\* the delete succeeded, never true after it failed
C28_DeleteReturnsWhetherDeleted ==
    [][(last'.op = "deleteFromDatabase") =>
        (last'.result = "true" <=> last'.wrote)]_vars

\* the entry is in the journal at the index
IsAt(hs, index, entry) ==
    /\ index >= 0
    /\ index < Len(hs)
    /\ hs[index + 1] = entry

\* C24: whatever the interleaving of two or more overlapping undo() calls,
\* each decrement of currentPosition is the cursor leaving the entry the call
\* has reverted: no entry is reverted twice and the cursor passes over no
\* entry that was not reverted
C24_EachDecrementLeavesRevertedEntry ==
    [][\A i \in 1..Len(calls) :
          (last'.op = "undo" /\ last'.result = "true" /\ undoResume(i, "ok")) =>
            IsAt(historyStack, currentPosition, calls[i].entry)]_vars

\* C23: when undo and redo are started from the buttons, at most one of them
\* is suspended at its storage call at any time: no redo and no second undo
\* starts while an undo is awaiting storage, no undo and no second redo while
\* a redo is
C23_OneHistoryOperationInFlight ==
    Cardinality(PendingOf({"undo", "redo"})) <= 1

\* C25: when loadHistory() or recordChange() completes while an undo() or
\* redo() is suspended, then once every call has resolved
\* -1 <= currentPosition < historyStack.length, and the decrement of undo and
\* the rollback of redo leave the cursor right before the entry the call
\* acted on (a redo that succeeded leaves it on that entry), never below -1
C25_CursorFollowsEntryActedOn ==
    [][/\ calls' = << >> =>
            /\ -1 <= currentPosition'
            /\ currentPosition' < Len(historyStack')
       /\ \A i \in 1..Len(calls) :
            /\ (last'.op = "undo" /\ last'.result = "true" /\ undoResume(i, "ok")) =>
                  /\ currentPosition' >= -1
                  /\ IsAt(historyStack', currentPosition' + 1, calls[i].entry)
            /\ (last'.op = "redo" /\ last'.result = "true" /\ redoResume(i, "ok")) =>
                  IsAt(historyStack', currentPosition', calls[i].entry)
            /\ (last'.op = "redo" /\ last'.result = "false" /\ redoResume(i, "error")) =>
                  /\ currentPosition' >= -1
                  /\ IsAt(historyStack', currentPosition' + 1, calls[i].entry)
      ]_vars

\* the entries of a journal, as a set
EntriesOf(hs) == {hs[k] : k \in 1..Len(hs)}

\* C26: what recordChange cut off the redo tail never comes back: a
\* loadHistory() puts into historyStack no entry that lies between two entries
\* of the journal without being in it (the place of a cut tail), and puts no
\* entry that was beyond the cursor, its effect reverted, at or before the cursor
C26_DiscardedTailStaysDiscarded ==
    [][(last'.op = "loadHistory" /\ last'.storage = "ok") =>
        /\ \A e \in EntriesOf(historyStack') \ EntriesOf(historyStack) :
              ~(\E a, b \in EntriesOf(historyStack) : a.id < e.id /\ e.id < b.id)
        /\ \A k \in (currentPosition + 2)..Len(historyStack) :
              ~(\E j \in 1..(currentPosition' + 1) : historyStack'[j] = historyStack[k])
      ]_vars

\* rows of t and u are the same except possibly the row of `entry`
SameExceptRowOf(t, u, entry) ==
    \A tableName \in DOMAIN t : \A id \in DOMAIN t[tableName] :
        (tableName # entry.table_name \/ id # entry.record_id) =>
            u[tableName][id] = t[tableName][id]

\* C27: undo() and redo(), whether they succeed or fail, leave the contents,
\* order and length of historyStack and the durable change_history table as
\* they were; besides currentPosition they change at most the one row named
\* by table_name / record_id of the entry they act on
C27_UndoRedoTouchOnlyCursorAndOneRow ==
    [][/\ (last'.op = "undo") =>
            /\ historyStack' = historyStack
            /\ change_history' = change_history
            /\ IF canUndo(currentPosition)
               THEN SameExceptRowOf(tables, tables', EntryAt(historyStack, currentPosition))
               ELSE tables' = tables
       /\ (last'.op = "redo") =>
            /\ historyStack' = historyStack
            /\ change_history' = change_history
            /\ IF tables' # tables
               THEN /\ canRedo(historyStack, currentPosition)
                    /\ SameExceptRowOf(tables, tables',
                                       EntryAt(historyStack, currentPosition + 1))
               ELSE TRUE
      ]_vars

\* an undo and a redo have each rewritten a row while the journal holds two
\* entries: the last call was a redo that succeeded after an undo that did
C27_Witness ==
    /\ last.op = "redo"
    /\ last.result = "true"
    /\ Len(historyStack) >= 2
    /\ Len(change_history) >= 2
    /\ currentPosition >= 0
    /\ LET entry == EntryAt(historyStack, currentPosition)
       IN  /\ entry.operation_type # "DELETE"
           /\ tables[entry.table_name][entry.record_id] = entry.new_data

\* C29: processQueue terminates: the queue ends up empty and isProcessing
\* false, also when an item names dependencies that are never registered or
\* never loaded, or has a condition that stays false
C29_ProcessQueueTerminates ==
    <>[](loader.loadQueue = << >> /\ ~loader.isProcessing)

\* the status of an item moves forward only
Forward(before, after) ==
    \/ after = before
    \/ before = "pending" /\ after = "loading"
    \/ before = "loading" /\ after \in {"loaded", "error"}

\* C30: for an id registered once, however processQueue and forceLoad(id)
\* interleave, the loader function is called at most once and the status goes
\* pending -> loading -> loaded / error, never back
C30_LoadedOnceForwardOnly ==
    [][\A id \in LoaderIds :
          /\ loader'.invoked[id] <= 1
          /\ (loader.items[id] # NotRegistered) =>
                Forward(loader.items[id].status, loader'.items[id].status)]_vars

====
